---- MODULE Spec2Model ----
(***************************************************************************)
(* Model of src/server.js: an Express API over one shared sqlite3          *)
(* connection `db` holding the tables recipes and recipe_materials.        *)
(*                                                                         *)
(* One step of the model is one SQL statement executed on the connection   *)
(* together with the JavaScript callback the driver runs for it.  Requests *)
(* of different clients interleave at that granularity, as their callbacks *)
(* do on the Node event loop.  All handlers use the same connection, so a  *)
(* BEGIN/COMMIT/ROLLBACK issued by one request acts on whatever every      *)
(* other request has executed on it.                                       *)
(*                                                                         *)
(* A statement issued without a callback (BEGIN TRANSACTION, COMMIT,       *)
(* ROLLBACK) that fails makes the driver emit an 'error' event on a        *)
(* Statement that has no listener: an uncaught exception, which ends the   *)
(* process.  The database file then holds the last committed state.        *)
(***************************************************************************)
EXTENDS Integers, Sequences, FiniteSets, TLC

\* ---------------------------------------------------------------- bounds
\* Largest row id of table recipes.
MaxId == 1
\* Longest materials array of a request body.
MaxMats == 2

\* ---------------------------------------------------------------- values
\* A JSON field that is missing from the body (JavaScript undefined).
Absent == -1000

Clients == {"c1", "c2"}
Ids == 1..MaxId

\* Request inputs.
Names == {"", "Sword"}
Quantities == {0, 1, -1}
Prices == {Absent, -5}
MaterialsKinds == {"absent", "object", "array"}
MaterialInputs ==
    { [material_name |-> "Iron", quantity |-> 3, material_type |-> "ore", default_npc_price |-> Absent],
      [material_name |-> "",     quantity |-> 3, material_type |-> "ore", default_npc_price |-> 5],
      [material_name |-> "Iron", quantity |-> 0, material_type |-> "ore", default_npc_price |-> 5],
      [material_name |-> "Iron", quantity |-> 3, material_type |-> "",    default_npc_price |-> 5],
      [material_name |-> "Iron", quantity |-> -3, material_type |-> "ore", default_npc_price |-> -5] }
ValidMaterialInputs == { m \in MaterialInputs :
    m.material_name # "" /\ m.quantity # 0 /\ m.material_type # "" }
ValidMaterialLists == UNION { [1..n -> ValidMaterialInputs] : n \in 0..MaxMats }
\* The materials arrays of request bodies: any number of well-formed entries,
\* then possibly one entry that lacks a field.
MaterialLists ==
    ValidMaterialLists \cup
    { Append(l, m) : l \in { v \in ValidMaterialLists : Len(v) < MaxMats },
                     m \in MaterialInputs \ ValidMaterialInputs }
\* The bodies drawn: one whose numbers are all negative, and the bodies that have
\* no negative number and no npc_sell_price.
Sampled(qty, price, mats) ==
    IF qty < 0
    THEN price # Absent /\ price < 0 /\ Len(mats) = 1 /\ mats[1].quantity < 0
    ELSE price = Absent /\ \A i \in 1..Len(mats) : mats[i].quantity >= 0
\* The :id path parameter, as a string of characters.
IdParams == { <<"1">>, <<"x">>, <<"2", "x">> }
\* The :name path parameter of GET /api/items/name/:name.
NameParams == {"Sword", "Bow"}
\* Names in ascending order, as ORDER BY name ASC compares them.
NameOrder == <<"Axe", "Bow", "Sword">>
\* err.message of a storage error.
ErrDetails == {"SQLITE_CONSTRAINT", "SQLITE_IOERR"}
Outcomes == {"ok"} \cup ErrDetails

VARIABLES
    recipes,    \* table recipes as the connection sees it: id -> row
    materials,  \* table recipe_materials: recipe_id -> rows in insertion order
    inTx,       \* the connection is inside BEGIN ... COMMIT/ROLLBACK
    snap,       \* the tables as they were at BEGIN (what ROLLBACK restores)
    crashed,    \* the process died of an unhandled 'error' event
    clients,    \* the clients that send requests
    req         \* per client: its request, the handler's locals and the response

vars == <<recipes, materials, inTx, snap, crashed, clients, req>>

\* ---------------------------------------------------------------- JavaScript
\* !v for a number or a missing field.
FalsyNum(v) == v = Absent \/ v = 0
\* !s for a string; a missing string field is modelled as "".
FalsyStr(s) == s = ""
\* v || 0
OrZero(v) == IF FalsyNum(v) THEN 0 ELSE v

Digits == <<"0", "1", "2", "3", "4", "5", "6", "7", "8", "9">>
IsDigit(ch) == \E d \in 1..10 : Digits[d] = ch
DigitValue(ch) == (CHOOSE d \in 1..10 : Digits[d] = ch) - 1
\* How many leading characters of s are digits.
RECURSIVE DigitPrefixLen(_)
DigitPrefixLen(s) ==
    IF s = <<>> \/ ~IsDigit(Head(s)) THEN 0 ELSE 1 + DigitPrefixLen(Tail(s))
RECURSIVE DigitsValue(_, _)
DigitsValue(s, n) ==
    IF n = 0 THEN 0 ELSE 10 * DigitsValue(s, n - 1) + DigitValue(s[n])
\* isNaN(parseInt(s, 10)): no leading digit.
IsNaNId(s) == DigitPrefixLen(s) = 0
\* parseInt(s, 10) for a string with a leading digit: the value of its digit prefix.
ParseInt(s) == DigitsValue(s, DigitPrefixLen(s))

\* ---------------------------------------------------------------- store
EmptyRecipes == [i \in {} |-> 0]
EmptyMaterials == [i \in Ids |-> <<>>]
EmptyStore == [recipes |-> EmptyRecipes, materials |-> EmptyMaterials]
CurStore == [recipes |-> recipes, materials |-> materials]
\* What the database file holds: uncommitted statements are not in it.
Committed == IF inTx THEN snap ELSE CurStore

NoRow == [id |-> 0, name |-> "", quantity_produced |-> 0, npc_sell_price |-> 0]
NoBody == [msg |-> "", id |-> 0, detail |-> "", recipe |-> NoRow, materials |-> <<>>,
           rows |-> <<>>, price |-> 0]
NoReq == [kind |-> "none", pc |-> "idle", itemId |-> 0, name |-> "", quantity_produced |-> 0,
          npc_sell_price |-> 0, materials |-> <<>>, recipeId |-> 0, idx |-> 0,
          materialError |-> FALSE, recipeRow |-> NoRow, status |-> 0, body |-> NoBody,
          idParam |-> <<>>, sent |-> 0, seenMaterials |-> <<>>]

Max(S) == CHOOSE x \in S : \A y \in S : y <= x
\* this.lastID of an INSERT INTO recipes: the largest rowid in the table plus one.
NextId(rs) == IF DOMAIN rs = {} THEN 1 ELSE Max(DOMAIN rs) + 1

InitStore ==
    /\ recipes = EmptyRecipes
    /\ materials = EmptyMaterials
    /\ inTx = FALSE
    /\ snap = EmptyStore
    /\ crashed = FALSE
    /\ req = [c \in Clients |-> NoReq]

\* Every client sends requests, whenever it has none outstanding.
Init == InitStore /\ clients = Clients

\* ---------------------------------------------------------------- connection
\* Mutant: the connection does not enforce foreign keys.
ForeignKeysOff == FALSE

\* Foreign keys of recipe_materials(recipe_id) are enforced with ON DELETE CASCADE.
ForeignKeys == TRUE

\* The request is over: what was asked (kind, id), the response and the number
\* of responses sent are kept, the body and the handler's locals are gone.
Finish(r) == [NoReq EXCEPT !.kind = r.kind, !.pc = "done", !.itemId = r.itemId,
                           !.status = r.status, !.body = r.body, !.sent = r.sent]
\* The request was under way when the process died.
Lost(r) == [Finish(r) EXCEPT !.pc = "lost"]

\* The process dies: nothing uncommitted reaches the database file, and the
\* requests under way get no (further) answer.
Crash ==
    /\ crashed' = TRUE
    /\ req' = [c \in Clients |-> IF req[c].pc \in {"idle", "done"} THEN req[c] ELSE Lost(req[c])]
    /\ recipes' = Committed.recipes
    /\ materials' = Committed.materials
    /\ inTx' = FALSE
    /\ snap' = EmptyStore

\* db.run('BEGIN TRANSACTION') of client c's request: fails inside a transaction.
ConnBegin(c) ==
    IF inTx THEN Crash
    ELSE /\ inTx' = TRUE
         /\ snap' = CurStore
         /\ req' = [req EXCEPT ![c].pc = "recipe"]
         /\ UNCHANGED <<recipes, materials, crashed>>

\* db.run('COMMIT'), the last statement of c's request: fails when no transaction is active.
ConnCommit(c) ==
    IF ~inTx THEN Crash
    ELSE /\ inTx' = FALSE
         /\ snap' = EmptyStore
         /\ req' = [req EXCEPT ![c] = Finish(@)]
         /\ UNCHANGED <<recipes, materials, crashed>>

\* db.run('ROLLBACK'), the last statement of c's request: fails when no transaction is active.
ConnRollback(c) ==
    IF ~inTx THEN Crash
    ELSE /\ inTx' = FALSE
         /\ recipes' = snap.recipes
         /\ materials' = snap.materials
         /\ snap' = EmptyStore
         /\ req' = [req EXCEPT ![c] = Finish(@)]
         /\ UNCHANGED crashed

\* Mutant: default_npc_price stored as received, without "|| 0".
MaterialRowNoDefault(mat) ==
    [material_name |-> mat.material_name, quantity |-> mat.quantity,
     material_type |-> mat.material_type, default_npc_price |-> mat.default_npc_price]

\* A row of recipe_materials as stored by sqlInsertMaterial.
MaterialRow(mat) ==
    [material_name |-> mat.material_name, quantity |-> mat.quantity,
     material_type |-> mat.material_type, default_npc_price |-> OrZero(mat.default_npc_price)]

\* Mutant: the callback of stmtMaterial.run answers 500 itself when runErr is set.
RunCallbackAnswers(r, ok) ==
    IF ok THEN r
    ELSE [r EXCEPT !.materialError = TRUE, !.status = 500, !.sent = r.sent + 1]

\* Lines 137, 186: the callback of stmtMaterial.run sets the error flag when
\* runErr is set, and sends nothing.
RunCallback(r, ok) == [r EXCEPT !.materialError = r.materialError \/ ~ok]

\* INSERT INTO recipe_materials succeeds: no storage error, and the row's
\* recipe_id names a row of recipes.
MaterialInsertOk(out, rid) == out = "ok" /\ (ForeignKeys => rid \in DOMAIN recipes)

\* ---------------------------------------------------------------- requests
Busy(c) == req[c].pc \notin {"idle", "done"}
CanStart(c) == ~crashed /\ c \in clients /\ ~Busy(c)
Msg(text) == [NoBody EXCEPT !.msg = text]
Fresh(kind) == [NoReq EXCEPT !.kind = kind]
\* res.status(status).json(body), the handler going on to step pc.
Answer(r, status, body, pc) ==
    [r EXCEPT !.status = status, !.body = body, !.pc = pc, !.sent = r.sent + 1]
Reply(r, status, body) == Finish(Answer(r, status, body, "done"))

\* Line 112 / 160: the body's scalar fields and the type of materials.
InvalidBody(name, qty, mkind) == FalsyStr(name) \/ FalsyNum(qty) \/ mkind # "array"
\* Line 113 / 161: materials.some(...)
InvalidMaterial(mat) ==
    FalsyStr(mat.material_name) \/ FalsyNum(mat.quantity) \/ FalsyStr(mat.material_type)
SomeInvalidMaterial(mats) == \E i \in 1..Len(mats) : InvalidMaterial(mats[i])

\* The body checks shared by POST and PUT; r is the request so far.
Validated(c, r) ==
    \E name \in Names, qty \in Quantities, mkind \in MaterialsKinds :
       IF InvalidBody(name, qty, mkind)
       THEN req' = [req EXCEPT ![c] = Reply(r, 400, Msg("invalid item"))]
       ELSE \E price \in Prices, mats \in MaterialLists :
              /\ Sampled(qty, price, mats)
              /\ IF SomeInvalidMaterial(mats)
                 THEN req' = [req EXCEPT ![c] = Reply(r, 400, Msg("invalid materials"))]
                 ELSE req' = [req EXCEPT ![c] =
                         [r EXCEPT !.pc = "begin", !.name = name, !.quantity_produced = qty,
                                   !.npc_sell_price = price, !.materials = mats]]

\* The row written by sqlInsertRecipe / sqlUpdateRecipe.
RecipeRow(r) ==
    [name |-> r.name, quantity_produced |-> r.quantity_produced,
     npc_sell_price |-> OrZero(r.npc_sell_price)]

\* ---------------------------------------------------------------- POST /api/items
\* Mutant: the error response is sent without db.run('ROLLBACK').
CreateErrorStatementMissing == "done"

\* Lines 127, 143: the statement issued before an error response.
CreateErrorStatement == "rollback"

StartCreate(c) ==
    /\ CanStart(c)
    /\ UNCHANGED <<recipes, materials, inTx, snap, crashed, clients>>
    /\ Validated(c, Fresh("create"))

CreateBegin(c) ==
    /\ ~crashed /\ req[c].kind = "create" /\ req[c].pc = "begin"
    /\ ConnBegin(c)
    /\ UNCHANGED clients

\* The INSERT INTO recipes and its callback, which issues every material insert
\* and the finalize (materialErrorOccurred is still false while forEach runs).
CreateInsertRecipe(c) ==
    /\ ~crashed /\ req[c].kind = "create" /\ req[c].pc = "recipe"
    /\ UNCHANGED <<materials, inTx, snap, crashed, clients>>
    /\ \E out \in Outcomes :
         LET r == req[c]
             id == NextId(recipes)
         IN  IF out # "ok" \/ id \notin Ids
             THEN /\ req' = [req EXCEPT ![c] =
                        Answer(r, 500, [Msg("save recipe failed") EXCEPT
                                          !.detail = IF out = "ok" THEN "SQLITE_FULL" ELSE out],
                               CreateErrorStatement)]
                  /\ UNCHANGED recipes
             ELSE /\ recipes' = [i \in DOMAIN recipes \cup {id} |->
                                   IF i = id THEN RecipeRow(r) ELSE recipes[i]]
                  /\ req' = [req EXCEPT ![c] =
                        [r EXCEPT !.recipeId = id, !.idx = 1, !.materialError = FALSE,
                                  !.pc = IF Len(r.materials) = 0 THEN "finalize" ELSE "material"]]

\* One stmtMaterial.run and its callback.
CreateInsertMaterial(c) ==
    /\ ~crashed /\ req[c].kind = "create" /\ req[c].pc = "material"
    /\ UNCHANGED <<recipes, inTx, snap, crashed, clients>>
    /\ \E out \in Outcomes :
         LET r == req[c]
             ok == MaterialInsertOk(out, r.recipeId)
         IN  /\ materials' = IF ok
                             THEN [materials EXCEPT ![r.recipeId] = Append(@, MaterialRow(r.materials[r.idx]))]
                             ELSE materials
             /\ req' = [req EXCEPT ![c] =
                   [RunCallback(r, ok) EXCEPT
                             !.idx = r.idx + 1,
                             !.pc = IF r.idx = Len(r.materials) THEN "finalize" ELSE "material"]]

\* Mutant: only finalizeErr is looked at, the run callbacks' errors are not.
CreateVerdictFinalizeOnly(materialError, out) == IF out # "ok" THEN "rollback" ELSE "commit"

\* Lines 141-146: what the finalize callback issues.
CreateVerdict(materialError, out) == IF materialError \/ out # "ok" THEN "rollback" ELSE "commit"

\* stmtMaterial.finalize and its callback: ROLLBACK or COMMIT is issued and the
\* response is sent at once.
CreateFinalize(c) ==
    /\ ~crashed /\ req[c].kind = "create" /\ req[c].pc = "finalize"
    /\ UNCHANGED <<recipes, materials, inTx, snap, crashed, clients>>
    /\ \E out \in Outcomes :
         LET r == req[c]
         IN  req' = [req EXCEPT ![c] =
                IF CreateVerdict(r.materialError, out) = "rollback"
                THEN Answer(r, 500, Msg("save materials failed"), CreateErrorStatement)
                ELSE Answer(r, 201, [Msg("created") EXCEPT !.id = r.recipeId], "commit")]

CreateCommit(c) ==
    /\ ~crashed /\ req[c].kind = "create" /\ req[c].pc = "commit"
    /\ ConnCommit(c)
    /\ UNCHANGED clients

CreateRollback(c) ==
    /\ ~crashed /\ req[c].kind = "create" /\ req[c].pc = "rollback"
    /\ ConnRollback(c)
    /\ UNCHANGED clients

\* ---------------------------------------------------------------- PUT /api/items/:id
\* Mutant: the error response is sent without db.run('ROLLBACK').
UpdateErrorStatementMissing == "done"

\* Lines 173, 175, 179, 190: the statement issued before an error response.
UpdateErrorStatement == "rollback"

StartUpdate(c) ==
    /\ CanStart(c)
    /\ UNCHANGED <<recipes, materials, inTx, snap, crashed, clients>>
    /\ \E idp \in IdParams :
         IF IsNaNId(idp)
         THEN req' = [req EXCEPT ![c] = Reply(Fresh("update"), 400, Msg("invalid id"))]
         ELSE Validated(c, [Fresh("update") EXCEPT !.itemId = ParseInt(idp), !.idParam = idp])

UpdateBegin(c) ==
    /\ ~crashed /\ req[c].kind = "update" /\ req[c].pc = "begin"
    /\ ConnBegin(c)
    /\ UNCHANGED clients

\* Mutant: this.changes is not looked at.
NoChangesUnchecked(rs, id) == FALSE

\* Line 175: this.changes === 0, the UPDATE matched no row.
NoChanges(rs, id) == id \notin DOMAIN rs

\* The UPDATE recipes and its callback.
UpdateRecipe(c) ==
    /\ ~crashed /\ req[c].kind = "update" /\ req[c].pc = "recipe"
    /\ UNCHANGED <<materials, inTx, snap, crashed, clients>>
    /\ \E out \in Outcomes :
         LET r == req[c]
         IN  IF out # "ok"
             THEN /\ req' = [req EXCEPT ![c] =
                        Answer(r, 500, [Msg("update recipe failed") EXCEPT !.detail = out], UpdateErrorStatement)]
                  /\ UNCHANGED recipes
             ELSE IF NoChanges(recipes, r.itemId)
             THEN /\ req' = [req EXCEPT ![c] = Answer(r, 404, Msg("not found for update"), UpdateErrorStatement)]
                  /\ UNCHANGED recipes
             ELSE /\ recipes' = [recipes EXCEPT ![r.itemId] = RecipeRow(r)]
                  /\ req' = [req EXCEPT ![c].pc = "deleteMaterials"]

\* Mutant: the old materials are not deleted.
DeleteMaterialsSkipped(ms, id) == ms

\* Line 165: sqlDeleteMaterials, on the rows of recipe id.
DeleteMaterials(ms, id) == [ms EXCEPT ![id] = <<>>]

\* The DELETE FROM recipe_materials and its callback, which issues every
\* material insert and the finalize.
UpdateDeleteMaterials(c) ==
    /\ ~crashed /\ req[c].kind = "update" /\ req[c].pc = "deleteMaterials"
    /\ UNCHANGED <<recipes, inTx, snap, crashed, clients>>
    /\ \E out \in Outcomes :
         LET r == req[c]
         IN  IF out # "ok"
             THEN /\ req' = [req EXCEPT ![c] = Answer(r, 500, Msg("clear materials failed"), UpdateErrorStatement)]
                  /\ UNCHANGED materials
             ELSE /\ materials' = DeleteMaterials(materials, r.itemId)
                  /\ req' = [req EXCEPT ![c] =
                        [r EXCEPT !.idx = 1, !.materialError = FALSE,
                                  !.pc = IF Len(r.materials) = 0 THEN "finalize" ELSE "material"]]

UpdateInsertMaterial(c) ==
    /\ ~crashed /\ req[c].kind = "update" /\ req[c].pc = "material"
    /\ UNCHANGED <<recipes, inTx, snap, crashed, clients>>
    /\ \E out \in Outcomes :
         LET r == req[c]
             ok == MaterialInsertOk(out, r.itemId)
         IN  /\ materials' = IF ok
                             THEN [materials EXCEPT ![r.itemId] = Append(@, MaterialRow(r.materials[r.idx]))]
                             ELSE materials
             /\ req' = [req EXCEPT ![c] =
                   [RunCallback(r, ok) EXCEPT
                             !.idx = r.idx + 1,
                             !.pc = IF r.idx = Len(r.materials) THEN "finalize" ELSE "material"]]

\* Lines 189-191: what the finalize callback issues.
UpdateVerdict(materialInsertError, out) ==
    IF materialInsertError \/ out # "ok" THEN "rollback" ELSE "commit"

UpdateFinalize(c) ==
    /\ ~crashed /\ req[c].kind = "update" /\ req[c].pc = "finalize"
    /\ UNCHANGED <<recipes, materials, inTx, snap, crashed, clients>>
    /\ \E out \in Outcomes :
         LET r == req[c]
         IN  req' = [req EXCEPT ![c] =
                IF UpdateVerdict(r.materialError, out) = "rollback"
                THEN Answer(r, 500, Msg("save updated materials failed"), UpdateErrorStatement)
                ELSE Answer(r, 200, [Msg("updated") EXCEPT !.id = r.itemId], "commit")]

UpdateCommit(c) ==
    /\ ~crashed /\ req[c].kind = "update" /\ req[c].pc = "commit"
    /\ ConnCommit(c)
    /\ UNCHANGED clients

UpdateRollback(c) ==
    /\ ~crashed /\ req[c].kind = "update" /\ req[c].pc = "rollback"
    /\ ConnRollback(c)
    /\ UNCHANGED clients

\* ---------------------------------------------------------------- DELETE /api/items/:id
StartDelete(c) ==
    /\ CanStart(c)
    /\ UNCHANGED <<recipes, materials, inTx, snap, crashed, clients>>
    /\ \E idp \in IdParams :
         req' = [req EXCEPT ![c] =
            IF IsNaNId(idp)
            THEN Reply(Fresh("delete"), 400, Msg("invalid id"))
            ELSE [Fresh("delete") EXCEPT !.itemId = ParseInt(idp), !.idParam = idp, !.pc = "delete"]]

\* Mutant: err is not looked at.
DeleteStatusErrUnchecked(out, changes) == IF out = "ok" /\ changes = 0 THEN 404 ELSE 200

\* Lines 207-209: the status the DELETE's callback answers with.
DeleteStatus(out, changes) == IF out # "ok" THEN 500 ELSE IF changes = 0 THEN 404 ELSE 200

\* The DELETE FROM recipes (with its cascade) and its callback.
ExecDelete(c) ==
    /\ ~crashed /\ req[c].kind = "delete" /\ req[c].pc = "delete"
    /\ UNCHANGED <<inTx, snap, crashed, clients>>
    /\ \E out \in Outcomes :
         LET r == req[c]
             changes == IF out = "ok" /\ r.itemId \in DOMAIN recipes THEN 1 ELSE 0
             status == DeleteStatus(out, changes)
         IN  /\ recipes' = IF changes = 1
                           THEN [i \in DOMAIN recipes \ {r.itemId} |-> recipes[i]]
                           ELSE recipes
             /\ materials' = IF changes = 1 /\ ForeignKeys
                             THEN [materials EXCEPT ![r.itemId] = <<>>]
                             ELSE materials
             /\ req' = [req EXCEPT ![c] =
                   Reply(r, status, IF status = 500 THEN [Msg("delete failed") EXCEPT !.detail = out]
                                    ELSE IF status = 404 THEN Msg("not found for delete")
                                    ELSE Msg("deleted"))]

\* ---------------------------------------------------------------- GET /api/items/:id/recipe
StartGet(c) ==
    /\ CanStart(c)
    /\ UNCHANGED <<recipes, materials, inTx, snap, crashed, clients>>
    /\ \E idp \in IdParams :
         req' = [req EXCEPT ![c] =
            IF IsNaNId(idp)
            THEN Reply(Fresh("get"), 400, Msg("invalid id"))
            ELSE [Fresh("get") EXCEPT !.itemId = ParseInt(idp), !.idParam = idp, !.pc = "getRecipe"]]

\* The row sqlRecipe selects for id in a table, NoRow when there is none.
SelectRecipe(rs, id) ==
    IF id \in DOMAIN rs
    THEN [id |-> id, name |-> rs[id].name, quantity_produced |-> rs[id].quantity_produced,
          npc_sell_price |-> rs[id].npc_sell_price]
    ELSE NoRow
\* The rows sqlMaterials selects for id.
SelectMaterials(ms, id) == IF id \in DOMAIN ms THEN ms[id] ELSE <<>>

GetRecipe(c) ==
    /\ ~crashed /\ req[c].kind = "get" /\ req[c].pc = "getRecipe"
    /\ UNCHANGED <<recipes, materials, inTx, snap, crashed, clients>>
    /\ \E out \in Outcomes :
         LET r == req[c]
             row == SelectRecipe(recipes, r.itemId)
         IN  req' = [req EXCEPT ![c] =
                IF out # "ok" THEN Reply(r, 500, Msg("get recipe failed"))
                ELSE IF row = NoRow THEN Reply(r, 404, Msg("not found"))
                ELSE [r EXCEPT !.recipeRow = row, !.pc = "getMaterials",
                               !.seenMaterials = SelectMaterials(materials, r.itemId)]]

GetMaterials(c) ==
    /\ ~crashed /\ req[c].kind = "get" /\ req[c].pc = "getMaterials"
    /\ UNCHANGED <<recipes, materials, inTx, snap, crashed, clients>>
    /\ \E out \in Outcomes :
         LET r == req[c]
         IN  req' = [req EXCEPT ![c] =
                IF out # "ok" THEN Reply(r, 500, Msg("get materials failed"))
                ELSE Reply(r, 200, [NoBody EXCEPT !.recipe = r.recipeRow,
                                                  !.materials = SelectMaterials(materials, r.itemId)])]

\* ---------------------------------------------------------------- GET /api/items
NameRank(name) == CHOOSE i \in 1..Len(NameOrder) : NameOrder[i] = name
\* id a comes before id b in ORDER BY name ASC (rows of equal name in rowid order).
Before(rs, a, b) ==
    \/ NameRank(rs[a].name) < NameRank(rs[b].name)
    \/ NameRank(rs[a].name) = NameRank(rs[b].name) /\ a < b
RECURSIVE ListRows(_, _)
ListRows(rs, ids) ==
    IF ids = {} THEN <<>>
    ELSE LET a == CHOOSE x \in ids : \A y \in ids \ {x} : Before(rs, x, y)
         IN  <<[id |-> a, name |-> rs[a].name, npc_sell_price |-> rs[a].npc_sell_price]>>
               \o ListRows(rs, ids \ {a})

StartList(c) ==
    /\ CanStart(c)
    /\ UNCHANGED <<recipes, materials, inTx, snap, crashed, clients>>
    /\ req' = [req EXCEPT ![c] = [Fresh("list") EXCEPT !.pc = "list"]]

ExecList(c) ==
    /\ ~crashed /\ req[c].kind = "list" /\ req[c].pc = "list"
    /\ UNCHANGED <<recipes, materials, inTx, snap, crashed, clients>>
    /\ \E out \in Outcomes :
         req' = [req EXCEPT ![c] =
            IF out # "ok" THEN Reply(req[c], 500, Msg("list failed"))
            ELSE Reply(req[c], 200, [NoBody EXCEPT !.rows = ListRows(recipes, DOMAIN recipes)])]

\* ---------------------------------------------------------------- GET /api/items/name/:name
StartPrice(c) ==
    /\ CanStart(c)
    /\ UNCHANGED <<recipes, materials, inTx, snap, crashed, clients>>
    /\ \E name \in NameParams :
         req' = [req EXCEPT ![c] = [Fresh("price") EXCEPT !.name = name, !.pc = "price"]]

ExecPrice(c) ==
    /\ ~crashed /\ req[c].kind = "price" /\ req[c].pc = "price"
    /\ UNCHANGED <<recipes, materials, inTx, snap, crashed, clients>>
    /\ \E out \in Outcomes :
         LET r == req[c]
             hits == {i \in DOMAIN recipes : recipes[i].name = r.name}
         IN  req' = [req EXCEPT ![c] =
                IF out # "ok" THEN Reply(r, 500, Msg("price failed"))
                ELSE IF hits = {} THEN Reply(r, 404, Msg("not found"))
                ELSE Reply(r, 200, [NoBody EXCEPT !.price = recipes[CHOOSE i \in hits : \A j \in hits : i <= j].npc_sell_price])]

\* ---------------------------------------------------------------- system
Next == \E c \in Clients :
    \/ StartCreate(c) \/ CreateBegin(c) \/ CreateInsertRecipe(c) \/ CreateInsertMaterial(c)
    \/ CreateFinalize(c) \/ CreateCommit(c) \/ CreateRollback(c)
    \/ StartUpdate(c) \/ UpdateBegin(c) \/ UpdateRecipe(c) \/ UpdateDeleteMaterials(c)
    \/ UpdateInsertMaterial(c) \/ UpdateFinalize(c) \/ UpdateCommit(c) \/ UpdateRollback(c)
    \/ StartDelete(c) \/ ExecDelete(c)
    \/ StartGet(c) \/ GetRecipe(c) \/ GetMaterials(c)
    \/ StartList(c) \/ ExecList(c)
    \/ StartPrice(c) \/ ExecPrice(c)

\* Every client sends requests, whenever it has none outstanding.
Spec == Init /\ [][Next]_vars

\* One client, which sends a request when its previous one has finished.
InitSeq == InitStore /\ clients = {"c1"}
SpecSeq == InitSeq /\ [][Next]_vars

\* The statements and callbacks of the requests under way: the driver runs every
\* statement it was handed and the event loop runs every callback.
Proceed == \E c \in Clients :
    \/ CreateBegin(c) \/ CreateInsertRecipe(c) \/ CreateInsertMaterial(c)
    \/ CreateFinalize(c) \/ CreateCommit(c) \/ CreateRollback(c)
    \/ UpdateBegin(c) \/ UpdateRecipe(c) \/ UpdateDeleteMaterials(c)
    \/ UpdateInsertMaterial(c) \/ UpdateFinalize(c) \/ UpdateCommit(c) \/ UpdateRollback(c)
    \/ ExecDelete(c) \/ GetRecipe(c) \/ GetMaterials(c) \/ ExecList(c) \/ ExecPrice(c)
SpecSeqFair == InitSeq /\ [][Next]_vars /\ WF_vars(Proceed)

\* ---------------------------------------------------------------- properties
\* What a get_recipe(id) answers on the tables rs, ms when no statement fails.
Found(rs, id) == SelectRecipe(rs, id) # NoRow
\* The rows a materials array is stored as: price 0 where the entry has none.
StoredAs(mats) ==
    [i \in 1..Len(mats) |->
        [material_name |-> mats[i].material_name, quantity |-> mats[i].quantity,
         material_type |-> mats[i].material_type,
         default_npc_price |-> IF mats[i].default_npc_price = Absent THEN 0
                               ELSE mats[i].default_npc_price]]
Range(f) == { f[i] : i \in DOMAIN f }
\* The request of c has been answered with success and its COMMIT is issued.
Succeeded(c, kind) == req[c].kind = kind /\ req[c].pc = "commit" /\ req[c].status \in {200, 201}
\* c's request takes its last step.
Ends(c) == req[c].pc \notin {"idle", "done"} /\ req'[c].pc = "done"

\* C1: when create_recipe has answered 201 with an id, get_recipe(id) reads the
\* input name and quantity_produced, the input npc_sell_price (0 when absent), and
\* materials equal as a set (here: row for row) to the input materials, an absent
\* default_npc_price read as 0.
C1_CreateThenGet ==
    \A c \in Clients : Succeeded(c, "create") =>
        LET r == req[c]
            row == SelectRecipe(recipes, r.body.id)
            ms == SelectMaterials(materials, r.body.id)
        IN  /\ r.status = 201
            /\ row.id = r.body.id /\ row.id # 0
            /\ row.name = r.name
            /\ row.quantity_produced = r.quantity_produced
            /\ row.npc_sell_price = (IF r.npc_sell_price = Absent THEN 0 ELSE r.npc_sell_price)
            /\ ms = StoredAs(r.materials)
            /\ Range(ms) = Range(StoredAs(r.materials))
C1_Witness ==
    \E c \in Clients :
        /\ Succeeded(c, "create")
        /\ req[c].npc_sell_price = Absent
        /\ Len(req[c].materials) = 2
        /\ req[c].materials[1].default_npc_price = Absent

\* C2: when a material insert of create_recipe has failed, the request ends with
\* the tables holding neither the new recipe row nor any material row of it, and
\* the answer is a 500 that carries no id.
C2_CreateRollsBack ==
    [][\A c \in Clients :
          (req[c].kind = "create" /\ req[c].materialError /\ Ends(c)) =>
              /\ req[c].recipeId \notin DOMAIN recipes'
              /\ SelectMaterials(materials', req[c].recipeId) = <<>>
              /\ req'[c].status = 500
              /\ req'[c].body.id = 0]_vars
C2_Witness ==
    \E c \in Clients :
        /\ req[c].kind = "create" /\ req[c].materialError /\ req[c].pc = "rollback"
        /\ req[c].recipeId \in DOMAIN recipes
        /\ materials[req[c].recipeId] # <<>>

\* C3: when update_recipe answers 500 (a storage error at the recipe update, the
\* deletion of the old materials, a material insert or the finalize), the tables
\* at the end of the request are the ones the database held before it.
C3_UpdateFailureRestores ==
    [][\A c \in Clients :
          (req[c].kind = "update" /\ Ends(c) /\ req'[c].status = 500) =>
              /\ recipes' = Committed.recipes
              /\ materials' = Committed.materials]_vars
C3_Witness ==
    \E c \in Clients :
        /\ req[c].kind = "update" /\ req[c].pc = "rollback" /\ req[c].status = 500
        /\ inTx
        /\ req[c].itemId \in DOMAIN recipes
        /\ recipes[req[c].itemId] # snap.recipes[req[c].itemId]
        /\ materials[req[c].itemId] # snap.materials[req[c].itemId]

\* What a read may return while no write is half applied: the committed tables,
\* or the tables of a transaction whose statements have all run and whose COMMIT
\* is issued.
WriteComplete == \E w \in Clients : req[w].pc = "commit"
\* C4: no read returns a partially applied write: every row a read request
\* returns is a row of the committed tables (or of a write that is complete).
C4_ReadsSeeNoPartialWrite ==
    [][\A c \in Clients :
          /\ (req[c].pc = "getRecipe" /\ req'[c].pc = "getMaterials") =>
                \/ req'[c].recipeRow = SelectRecipe(Committed.recipes, req[c].itemId)
                \/ WriteComplete
          /\ (req[c].pc = "getMaterials" /\ req'[c].status = 200) =>
                \/ req'[c].body.materials = SelectMaterials(Committed.materials, req[c].itemId)
                \/ WriteComplete
          /\ (req[c].pc = "list" /\ req'[c].status = 200) =>
                \/ req'[c].body.rows = ListRows(Committed.recipes, DOMAIN Committed.recipes)
                \/ WriteComplete
          /\ (req[c].pc = "price" /\ req'[c].status = 200) =>
                \/ \E i \in DOMAIN Committed.recipes :
                      /\ Committed.recipes[i].name = req[c].name
                      /\ Committed.recipes[i].npc_sell_price = req'[c].body.price
                \/ WriteComplete]_vars

\* C5: a create_recipe whose materials list is empty is answered 400 (its answer
\* is never another one, a storage error's 500 apart) and leaves the tables as
\* they were.
C5_EmptyCreateRejected ==
    \A c \in Clients :
        (/\ req[c].kind = "create" /\ Busy(c) /\ Len(req[c].materials) = 0
         /\ req[c].status \notin {0, 500}) =>
            /\ req[c].status = 400
            /\ recipes = Committed.recipes

\* C6: an update_recipe of an existing recipe whose materials list is empty is
\* answered 400 (its answer is never another one, a storage error's 500 apart),
\* and the recipe's fields and materials stay as they were.
C6_EmptyUpdateRejected ==
    \A c \in Clients :
        (/\ req[c].kind = "update" /\ Busy(c) /\ Len(req[c].materials) = 0
         /\ req[c].status \notin {0, 500} /\ Found(Committed.recipes, req[c].itemId)) =>
            /\ req[c].status = 400
            /\ SelectRecipe(recipes, req[c].itemId) = SelectRecipe(Committed.recipes, req[c].itemId)
            /\ SelectMaterials(materials, req[c].itemId) = SelectMaterials(Committed.materials, req[c].itemId)

\* C7: an update_recipe of an id that has no row ends with the tables the
\* database held before it, and is answered 404 (500 when the UPDATE statement
\* itself fails with a storage error).
C7_UpdateMissingNotFound ==
    [][\A c \in Clients :
          (/\ req[c].kind = "update" /\ Ends(c)
           /\ ~Found(Committed.recipes, req[c].itemId)) =>
              /\ recipes' = Committed.recipes
              /\ materials' = Committed.materials
              /\ \/ req'[c].status = 404
                 \/ req'[c].status = 500 /\ req'[c].body.detail \in ErrDetails]_vars
C7_Witness ==
    \E c \in Clients :
        /\ req[c].kind = "update" /\ req[c].pc = "rollback" /\ req[c].status = 404
        /\ DOMAIN recipes # {}
        /\ req[c].itemId \notin DOMAIN recipes

\* Every row of recipe_materials in the tables rs, ms belongs to a row of recipes.
NoOrphans(rs, ms) == \A id \in DOMAIN ms : ms[id] # <<>> => id \in DOMAIN rs
\* C8: in every reachable state every material row's recipe_id is the id of an
\* existing recipe row, in the connection's tables and in the committed ones.
C8_MaterialsReferenceRecipes ==
    /\ NoOrphans(recipes, materials)
    /\ NoOrphans(Committed.recipes, Committed.materials)
C8_Witness ==
    \E c \in Clients :
        /\ req[c].kind = "delete" /\ req[c].pc = "done" /\ req[c].status = 200
        /\ inTx
        /\ req[c].itemId \in DOMAIN snap.recipes
        /\ snap.materials[req[c].itemId] # <<>>
        /\ req[c].itemId \notin DOMAIN recipes

\* C9: once delete_recipe(id) has answered 200, get_recipe(id) finds no row and
\* no material row of id is left; a recipe row that appears later starts with no
\* material rows.
C9_DeleteThenGet ==
    /\ [](\A c \in Clients :
            (req[c].kind = "delete" /\ req[c].pc = "done" /\ req[c].status = 200) =>
                /\ ~Found(recipes, req[c].itemId)
                /\ SelectMaterials(materials, req[c].itemId) = <<>>)
    /\ [][\A id \in Ids :
            (id \notin DOMAIN recipes /\ id \in DOMAIN recipes') => materials'[id] = <<>>]_vars
C9_Witness ==
    \E c \in Clients :
        /\ req[c].kind = "delete" /\ req[c].pc = "done" /\ req[c].status = 200
        /\ req[c].itemId \in Ids

\* C10: when update_recipe(id) has answered 200, get_recipe(id) reads exactly the
\* new name, quantity_produced and npc_sell_price and exactly the new materials:
\* no material row from before the update is left.
C10_UpdateThenGet ==
    \A c \in Clients : Succeeded(c, "update") =>
        LET r == req[c]
            row == SelectRecipe(recipes, r.itemId)
            ms == SelectMaterials(materials, r.itemId)
        IN  /\ r.status = 200 /\ r.body.id = r.itemId
            /\ row.id = r.itemId
            /\ row.name = r.name
            /\ row.quantity_produced = r.quantity_produced
            /\ row.npc_sell_price = (IF r.npc_sell_price = Absent THEN 0 ELSE r.npc_sell_price)
            /\ ms = StoredAs(r.materials)
C10_Witness ==
    \E c \in Clients :
        /\ Succeeded(c, "update") /\ inTx
        /\ Len(snap.materials[req[c].itemId]) = 2
        /\ Len(req[c].materials) = 1
        /\ snap.recipes[req[c].itemId].npc_sell_price # recipes[req[c].itemId].npc_sell_price

\* A storage statement of c's create_recipe or update_recipe has been issued.
Issued(c) ==
    /\ req[c].kind \in {"create", "update"}
    /\ req[c].pc \in {"recipe", "deleteMaterials", "material", "finalize", "commit", "rollback"}
\* C11: no storage statement is issued for a create_recipe or update_recipe whose
\* input fails validation: a request that has issued one has a non-empty name, a
\* positive quantity_produced and materials that all have their three fields.
C11_InvalidInputIssuesNothing ==
    \A c \in Clients : Issued(c) =>
        /\ req[c].name # ""
        /\ req[c].quantity_produced > 0
        /\ \A i \in 1..Len(req[c].materials) :
              /\ req[c].materials[i].material_name # ""
              /\ req[c].materials[i].quantity \notin {0, Absent}
              /\ req[c].materials[i].material_type # ""

\* C12: every committed recipe row has quantity_produced > 0 and
\* npc_sell_price >= 0, and every committed material row has quantity > 0 and
\* default_npc_price >= 0.
C12_StoredNumbersInRange ==
    /\ \A id \in DOMAIN Committed.recipes :
          /\ Committed.recipes[id].quantity_produced > 0
          /\ Committed.recipes[id].npc_sell_price >= 0
    /\ \A id \in DOMAIN Committed.materials :
          \A i \in 1..Len(Committed.materials[id]) :
              /\ Committed.materials[id][i].quantity > 0
              /\ Committed.materials[id][i].default_npc_price >= 0

\* C13: the ROLLBACK of one request never undoes a statement of another one: a
\* recipe row that a delete_recipe answered 200 has removed is not back after
\* the ROLLBACK of another client's create_recipe or update_recipe.
C13_RollbackKeepsOthersWrites ==
    [][\A c \in Clients, w \in Clients :
          (/\ w # c
           /\ req[c].pc = "rollback" /\ req'[c].pc = "done"
           /\ req[w].kind = "delete" /\ req[w].pc = "done" /\ req[w].status = 200
           /\ ~Found(recipes, req[w].itemId)) =>
              ~Found(recipes', req[w].itemId)]_vars

\* C14: the body of a 500 response does not depend on the storage error's
\* detail: two requests answered 500 by the same handler at the same step have
\* the same body.
C14_GenericErrorBody ==
    \A c \in Clients, d \in Clients :
        (/\ req[c].status = 500 /\ req[d].status = 500
         /\ req[c].kind = req[d].kind /\ req[c].body.msg = req[d].body.msg) =>
            req[c].body = req[d].body

\* The characters of the string s are all digits.
AllDigits(s) == s # <<>> /\ DigitPrefixLen(s) = Len(s)
\* C15: get_recipe, update_recipe and delete_recipe go on to the store only with
\* an id path parameter that is a number: a request that is past the id check has
\* a parameter made of digits only.
C15_NonNumericIdRejected ==
    \A c \in Clients :
        (req[c].kind \in {"get", "update", "delete"} /\ req[c].pc \notin {"idle", "done", "lost"}) =>
            AllDigits(req[c].idParam)

C17_ExactlyOneResponse ==
    /\ [](\A c \in Clients : req[c].sent <= 1 /\ (req[c].pc = "done" => req[c].sent = 1))
    /\ \A c \in Clients : (Busy(c) ~> (req[c].pc = "done" /\ req[c].sent = 1))
C17_Witness ==
    \E c \in Clients :
        /\ req[c].kind = "update" /\ req[c].pc = "finalize" /\ req[c].materialError
        /\ req[c].sent = 0

\* C18: when create_recipe has answered 201 or update_recipe 200, the request's
\* transaction is committed: the committed tables hold the request's recipe row
\* and its materials.
C18_SuccessMeansCommitted ==
    \A c \in Clients :
        (/\ req[c].kind \in {"create", "update"} /\ req[c].status \in {200, 201}
         /\ req[c].pc \in {"commit", "lost"}) =>
            /\ Found(Committed.recipes, req[c].body.id)
            /\ (req[c].pc = "commit" =>
                  /\ Committed.recipes[req[c].body.id] = RecipeRow(req[c])
                  /\ SelectMaterials(Committed.materials, req[c].body.id) = StoredAs(req[c].materials))

\* C19: a 200 response of get_recipe is the recipe at one point in time, also
\* when an update_recipe of the same id has completed meanwhile:
\* the materials it returns are the ones the recipe had when its row was read, or
\* the row it returns is the one the recipe has when its materials are read.
C19_GetIsSnapshot ==
    [][\A c \in Clients, w \in Clients :
          (/\ req[c].kind = "get" /\ req[c].pc = "getMaterials" /\ req'[c].status = 200
           /\ req[w].kind = "update" /\ req[w].pc = "done"
           /\ req[w].status = 200 /\ req[w].itemId = req[c].itemId) =>
              \/ req'[c].body.materials = req[c].seenMaterials
              \/ req'[c].body.recipe = SelectRecipe(recipes, req[c].itemId)]_vars

====
